---- MODULE Spec2Model ----
(***************************************************************************)
(* MerchantPay (src/src/lib.rs): a Stylus contract holding listings keyed  *)
(* by (id, seller), a global and a per-seller index of ids, and the        *)
(* address of the ERC-20 token that payments are made in.                  *)
(*                                                                         *)
(* A transaction is submitted (Submit: the sender and the arguments are    *)
(* chosen, call holds them) and then executed: every public function is    *)
(* one action, which runs the whole function on the submitted call.  A     *)
(* call runs to completion before the next one is submitted, and a call    *)
(* that returns Err is reverted by the runtime: none of its storage writes *)
(* or token transfers is retained.  ret is the observable outcome of the   *)
(* executed call: its result, the token calls it issued and the token      *)
(* transfers that were committed.  The events (evm::log) carry the         *)
(* arguments out and feed nothing back; they are not modelled.             *)
(***************************************************************************)
EXTENDS Integers, Sequences, FiniteSets, TLC

\* ---------------------------------------------------------------- bounds
\* Number of calls in a behaviour.
MaxSteps == 4
\* Width of the unsigned word that stands for U256.
WordBits == 14

\* --------------------------------------------------- values of the model
\* U256 arithmetic is arithmetic modulo 2^256; here modulo 2^WordBits.
Modulus == 2 ^ WordBits
\* Address::ZERO and B256::ZERO, Default of Address and of B256.
Zero == 0
\* The externally owned accounts that send transactions (msg::sender()).
Accounts == {1, 2}
\* contract::address(), the contract's own address.
Self == 3
\* The address of a deployed ERC-20 token contract.
Token == 4
Address == {Zero} \cup Accounts
\* The listing ids the callers use.
Ids == {1, 2}
\* The rates, quantities and amounts the callers pass.
RateValues == {0, 100, 5000}
QuantityValues == {0, 2, 4}
AmountValues == {0, 10000}
\* The addresses initialize is called with.
UsdcValues == {Zero, Token}

PENDING == "PENDING"
PAID == "PAID"
COMPLETED == "COMPLETED"
CANCELLED == "CANCELLED"
Status == {PENDING, PAID, COMPLETED, CANCELLED}

\* #[derive(Default)] of Listing: every field zero, status PENDING.
DefaultListing ==
    [id |-> Zero, seller |-> Zero, buyer |-> Zero, rate |-> 0, quantity |-> 0,
     status |-> PENDING]

VARIABLES
    USDC,               \* address USDC
    listings,           \* mapping(bytes32 => mapping(address => Listing))
    listing_keys,       \* bytes32[] listing_keys
    address_to_listing, \* mapping(address => bytes32[])
    call,               \* the submitted call, not yet executed
    ret,                \* the outcome of the call executed last
    steps,              \* number of calls submitted so far
    paid_ever,          \* history: the keys some payment has succeeded on
    paid_since          \* history: ... since add_listing last wrote the key

vars ==
    <<USDC, listings, listing_keys, address_to_listing, call, ret, steps,
      paid_ever, paid_since>>
store == <<USDC, listings, listing_keys, address_to_listing>>
history == <<paid_ever, paid_since>>

\* ------------------------------------------------------- U256 arithmetic
\* U256 `*`, `-` and `-=` wrap around on overflow (ruint's operators wrap).
Mul(a, b) == (a * b) % Modulus
Sub(a, b) == (a - b) % Modulus

\* fn deduct_charge: amount / U256::from(1000)
ChargeDivisor == 1000
deduct_charge(amount) == amount \div ChargeDivisor

\* ------------------------------------------------- calls and their outcome
NoCall ==
    [op |-> "none", caller |-> Zero, id |-> Zero, seller |-> Zero,
     usdc |-> Zero, rate |-> 0, quantity |-> 0, amount |-> 0]

\* The transactions the accounts send: the public functions of the contract
\* with their arguments; caller is msg::sender(), left zero where the function
\* does not read it.
Calls ==
    {[NoCall EXCEPT !.op = "initialize", !.usdc = u] : u \in UsdcValues}
    \cup
    {[NoCall EXCEPT !.op = "add_listing", !.caller = c, !.id = i, !.rate = r,
                    !.quantity = q] :
        c \in Accounts, i \in Ids, r \in RateValues, q \in QuantityValues}
    \cup
    {[NoCall EXCEPT !.op = "pay_for_listing", !.caller = c[1], !.id = i,
                    !.seller = c[2], !.quantity = q, !.amount = a] :
        c \in Accounts \X Address, i \in Ids, q \in QuantityValues,
        a \in AmountValues}
    \cup
    {[NoCall EXCEPT !.op = "get_listing", !.id = i, !.seller = a] :
        i \in Ids, a \in Address}
    \cup
    {[NoCall EXCEPT !.op = "get_all_listings_for_address", !.seller = a] :
        a \in Address}

NoRet ==
    [op |-> "none", err |-> "Ok", value |-> <<>>, calls |-> <<>>,
     moved |-> <<>>]

Submit ==
    /\ call = NoCall
    /\ steps < MaxSteps
    /\ call' \in Calls
    /\ ret' = NoRet
    /\ steps' = steps + 1
    /\ UNCHANGED <<store, history>>

\* ------------------------------------------------------------ initialize
initialize ==
    /\ call.op = "initialize"
    /\ USDC' = call.usdc
    /\ ret' = [NoRet EXCEPT !.op = "initialize"]
    /\ call' = NoCall
    /\ UNCHANGED <<listings, listing_keys, address_to_listing, steps, history>>

\* ----------------------------------------------------------- add_listing
\* Mutant: the quantity is not validated.
AddListingInvalidRateOnly(rate, quantity) == rate = 0

\* if rate == U256::ZERO || quantity == U256::ZERO
AddListingInvalid(rate, quantity) == rate = 0 \/ quantity = 0

\* Mutant: the sender is stored as the buyer, the seller is left zero.
NewListingSenderAsBuyer(id, sender, rate, quantity) ==
    [id |-> id, seller |-> Zero, buyer |-> sender, rate |-> rate,
     quantity |-> quantity, status |-> PENDING]

\* let listing = Listing { ... }
NewListing(id, sender, rate, quantity) ==
    [id |-> id, seller |-> sender, buyer |-> Zero, rate |-> rate,
     quantity |-> quantity, status |-> PENDING]

\* Mutant: the record is stored under the id alone, for every seller.
SetListingById(map, id, seller, listing) ==
    [k \in DOMAIN map |-> IF k[1] = id THEN listing ELSE map[k]]

\* self.listings.setter(id).setter(seller).set(listing)
SetListing(map, id, seller, listing) == [map EXCEPT ![id, seller] = listing]

\* Mutant: the id is pushed without the membership scan.
PushAlways(keys, id) == Append(keys, id)

\* The membership scan and the push of an index: `keys` with id appended
\* unless some element of it is id.
PushIfNew(keys, id) ==
    IF \E i \in 1..Len(keys) : keys[i] = id THEN keys ELSE Append(keys, id)

add_listing ==
    /\ call.op = "add_listing"
    /\ call' = NoCall
    /\ UNCHANGED <<USDC, steps, paid_ever>>
    /\ IF AddListingInvalid(call.rate, call.quantity)
       THEN /\ ret' = [NoRet EXCEPT !.op = "add_listing", !.err = "InvalidAmount"]
            /\ UNCHANGED <<listings, listing_keys, address_to_listing, paid_since>>
       ELSE /\ listings' = SetListing(listings, call.id, call.caller,
                    NewListing(call.id, call.caller, call.rate, call.quantity))
            /\ listing_keys' = PushIfNew(listing_keys, call.id)
            /\ address_to_listing' = [address_to_listing EXCEPT ![call.caller] =
                    PushIfNew(address_to_listing[call.caller], call.id)]
            /\ ret' = [NoRet EXCEPT !.op = "add_listing"]
            /\ paid_since' = paid_since \ {<<call.id, call.caller>>}

\* ------------------------------------------------------- pay_for_listing
\* Mutant: only CANCELLED is refused.
StatusNotCancelled(status) == status # CANCELLED

\* listing.status != Status::PENDING && listing.status != Status::PAID is
\* the InvalidListing condition: its negation.
StatusPayable(status) == status = PENDING \/ status = PAID

\* Mutant: the requested quantity is not compared with the remaining one.
QuantityNeverExceeds(quantity, listing) == FALSE

\* if quantity > listing.quantity
QuantityExceeds(quantity, listing) == quantity > listing.quantity

\* let price = listing.rate * quantity;
Price(listing, quantity) == Mul(listing.rate, quantity)

\* if amount < price
AmountBelow(amount, price) == amount < price

\* What a transferFrom call of the IERC20 interface can come back with:
\* Ok(true), Ok(false), or Err (the token reverted, or the returned data is no
\* bool).  An address without code returns no data, which does not decode.
\* The token is whatever contract initialize was given: which of the three
\* it answers is not in the hands of this contract.
TokenOutcomes(usdc) ==
    IF usdc = Token THEN {"OkTrue", "OkFalse", "Err"} ELSE {"Err"}

\* erc20.transfer_from(config, from, to, amount), with its outcome.
transfer_from(usdc, from, to, amount, outcome) ==
    [token |-> usdc, from |-> from, to |-> to, amount |-> amount,
     result |-> outcome]

\* .is_err() of a transfer_from result
is_err(transfer) == transfer.result = "Err"

\* The first transfer: price - charge to the seller.
SellerTransfer(usdc, caller, seller, price, charge, outcome) ==
    transfer_from(usdc, caller, seller, Sub(price, charge), outcome)

\* The second transfer: charge to the contract's own address.
ChargeTransfer(usdc, caller, charge, outcome) ==
    transfer_from(usdc, caller, Self, charge, outcome)

\* Mutant: the wrong variant is stored when nothing remains.
StatusAfterCancelled(quantity) == IF quantity = 0 THEN CANCELLED ELSE PAID

\* Mutant: the status after a payment is PAID whatever remains.
StatusAlwaysPaid(quantity) == PAID

\* listing.status = if listing.quantity == U256::ZERO { COMPLETED } else { PAID }
StatusAfter(quantity) == IF quantity = 0 THEN COMPLETED ELSE PAID

\* Mutant: the updated record is built from Listing::default(), not from the
\* record read.
PaidListingFromDefault(listing, caller, quantity) ==
    [DefaultListing EXCEPT !.id = listing.id, !.buyer = caller,
                           !.quantity = Sub(listing.quantity, quantity),
                           !.status = StatusAfter(Sub(listing.quantity, quantity))]

\* Mutant: the paid quantity is added to the remaining quantity.
PaidListingAdds(listing, caller, quantity) ==
    [listing EXCEPT !.buyer = caller,
                    !.quantity = (listing.quantity + quantity) % Modulus,
                    !.status = StatusAfter((listing.quantity + quantity) % Modulus)]

\* The update of the listing after the two transfers.
PaidListing(listing, caller, quantity) ==
    [listing EXCEPT !.buyer = caller,
                    !.quantity = Sub(listing.quantity, quantity),
                    !.status = StatusAfter(Sub(listing.quantity, quantity))]

\* The token transfers that outlive the call: those the token carried out
\* (it answered true), unless the call returned Err and was reverted.
Committed(err, calls) ==
    IF err = "Ok" THEN SelectSeq(calls, LAMBDA c : c.result = "OkTrue") ELSE <<>>

\* History: a successful payment on a listing that add_listing has written.
Paid(key, listing) == IF listing.seller # Zero THEN {key} ELSE {}

\* The validation of pay_for_listing, in the order of the code: the error it
\* returns before any transfer, or "Ok".
PayValidation(listing, quantity, amount) ==
    IF ~StatusPayable(listing.status) THEN "InvalidListing"
    ELSE IF QuantityExceeds(quantity, listing) THEN "InvalidQuantity"
    ELSE IF AmountBelow(amount, Price(listing, quantity)) THEN "InvalidAmount"
    ELSE "Ok"

\* The two transfers, in the order of the code, the token answering o1 and o2:
\* the error returned and the token calls issued.  The second call is issued
\* only if the first is not Err.
PayTransfers(listing, usdc, caller, seller, quantity, o1, o2) ==
    LET price == Price(listing, quantity)
        charge == deduct_charge(listing.rate)
        t1 == SellerTransfer(usdc, caller, seller, price, charge, o1)
        t2 == ChargeTransfer(usdc, caller, charge, o2)
    IN  IF is_err(t1) THEN [err |-> "TransferFailed", calls |-> <<t1>>]
        ELSE IF is_err(t2) THEN [err |-> "TransferFailed", calls |-> <<t1, t2>>]
        ELSE [err |-> "Ok", calls |-> <<t1, t2>>]

pay_for_listing ==
    LET key == <<call.id, call.seller>>
        listing == listings[key]
        invalid == PayValidation(listing, call.quantity, call.amount)
    IN  /\ call.op = "pay_for_listing"
        /\ call' = NoCall
        /\ UNCHANGED <<USDC, listing_keys, address_to_listing, steps>>
        /\ IF invalid # "Ok"
           THEN /\ ret' = [NoRet EXCEPT !.op = "pay_for_listing", !.err = invalid]
                /\ UNCHANGED <<listings, history>>
           ELSE \E o1 \in TokenOutcomes(USDC), o2 \in TokenOutcomes(USDC) :
                LET out == PayTransfers(listing, USDC, call.caller, call.seller,
                                        call.quantity, o1, o2)
                IN  /\ ret' = [NoRet EXCEPT !.op = "pay_for_listing",
                                  !.err = out.err, !.calls = out.calls,
                                  !.moved = Committed(out.err, out.calls)]
                    /\ IF out.err = "Ok"
                       THEN /\ listings' = SetListing(listings, call.id, call.seller,
                                    PaidListing(listing, call.caller, call.quantity))
                            /\ paid_ever' = paid_ever \cup Paid(key, listing)
                            /\ paid_since' = paid_since \cup Paid(key, listing)
                       ELSE UNCHANGED <<listings, history>>

\* ----------------------------------------------------------- get_listing
\* Mutant: the quantity is tested in place of the seller.
ListingFoundByQuantity(listing) == listing.quantity # 0

\* listing.seller == Address::ZERO is ListingNotFound: its negation.
ListingFound(listing) == listing.seller # Zero

get_listing ==
    LET listing == listings[call.id, call.seller]
    IN  /\ call.op = "get_listing"
        /\ call' = NoCall
        /\ ret' = IF ListingFound(listing)
                  THEN [NoRet EXCEPT !.op = "get_listing", !.value = <<listing>>]
                  ELSE [NoRet EXCEPT !.op = "get_listing", !.err = "ListingNotFound"]
        /\ UNCHANGED <<store, steps, history>>

\* ------------------------------------------ get_all_listings_for_address
\* Mutant: the listings are collected from the last id of the index to the
\* first.
ListingsOfReversed(keys, seller) ==
    SelectSeq([i \in 1..Len(keys) |-> listings[keys[Len(keys) + 1 - i], seller]],
              LAMBDA l : l.seller # Zero)

\* The listings of the ids of the seller's index, in index order, without
\* those whose seller field is zero.
ListingsOf(keys, seller) ==
    SelectSeq([i \in 1..Len(keys) |-> listings[keys[i], seller]], ListingFound)

get_all_listings_for_address ==
    LET found == ListingsOf(address_to_listing[call.seller], call.seller)
    IN  /\ call.op = "get_all_listings_for_address"
        /\ call' = NoCall
        /\ ret' = IF found = <<>>
                  THEN [NoRet EXCEPT !.op = "get_all_listings_for_address",
                                     !.err = "ListingNotFound"]
                  ELSE [NoRet EXCEPT !.op = "get_all_listings_for_address",
                                     !.value = found]
        /\ UNCHANGED <<store, steps, history>>

\* ------------------------------------------------------------------ spec
Init ==
    /\ USDC = Zero
    /\ listings = [k \in Ids \X Address |-> DefaultListing]
    /\ listing_keys = <<>>
    /\ address_to_listing = [a \in Address |-> <<>>]
    /\ call = NoCall
    /\ ret = NoRet
    /\ steps = 0
    /\ paid_ever = {}
    /\ paid_since = {}

Next ==
    \/ Submit
    \/ initialize
    \/ add_listing
    \/ pay_for_listing
    \/ get_listing
    \/ get_all_listings_for_address

Spec == Init /\ [][Next]_vars

\* ================================================================ claims
Keys == Ids \X Address
\* add_listing has written the record at key (msg::sender() is never zero).
Created(key) == listings[key].seller # Zero
\* The number of occurrences of x in seq.
Count(seq, x) == Cardinality({i \in 1..Len(seq) : seq[i] = x})
\* This step executes the submitted call of function op.
Executes(op) == call.op = op /\ call' = NoCall
\* The listing records and the two index sequences stay as they are.
ListingsAndIndexesUnchanged ==
    UNCHANGED <<listings, listing_keys, address_to_listing>>

\* C1: add_listing fails with InvalidAmount iff rate = 0 or quantity = 0, a
\* failing call changes no listing and no index; every other call succeeds
\* and leaves at (id, caller) seller = caller, buyer = zero, the given rate
\* and quantity and status PENDING.
C1_AddListing ==
    [][Executes("add_listing") =>
        /\ ret'.err \in {"Ok", "InvalidAmount"}
        /\ ret'.err = "InvalidAmount" <=> (call.rate = 0 \/ call.quantity = 0)
        /\ ret'.err # "Ok" => ListingsAndIndexesUnchanged
        /\ ret'.err = "Ok" =>
            LET l == listings'[call.id, call.caller]
            IN  /\ l.seller = call.caller
                /\ l.buyer = Zero
                /\ l.rate = call.rate
                /\ l.quantity = call.quantity
                /\ l.status = PENDING]_vars

\* A successful add_listing over a listing that had been paid before.
C1_Witness ==
    /\ ret.op = "add_listing"
    /\ ret.err = "Ok"
    /\ \E key \in paid_ever :
        listings[key].status = PENDING /\ listings[key].buyer = Zero

\* C2: a successful pay_for_listing leaves the quantity before the call minus
\* the requested quantity, the requested quantity is at most the quantity
\* before the call, and the result is not negative (no wrap below zero).
C2_QuantityDecrement ==
    [][(Executes("pay_for_listing") /\ ret'.err = "Ok") =>
        LET key == <<call.id, call.seller>>
        IN  /\ call.quantity <= listings[key].quantity
            /\ listings'[key].quantity = listings[key].quantity - call.quantity
            /\ listings'[key].quantity >= 0]_vars

\* A successful partial payment: something was paid for, something remains.
C2_Witness ==
    /\ ret.op = "pay_for_listing"
    /\ ret.err = "Ok"
    /\ ret.calls[1].amount > 0
    /\ \E key \in paid_since :
        listings[key].quantity > 0 /\ listings[key].buyer = ret.calls[1].from

\* C3 as stated: for every created listing, status = COMPLETED iff
\* quantity = 0, and with quantity > 0 the status is PAID if some successful
\* payment was ever applied to the listing and PENDING if none was.
C3_StatusAsStated ==
    \A key \in Keys : Created(key) =>
        /\ listings[key].status = COMPLETED <=> listings[key].quantity = 0
        /\ listings[key].quantity > 0 =>
            listings[key].status = IF key \in paid_ever THEN PAID ELSE PENDING

\* C3 amended: for every created listing, status = COMPLETED iff quantity = 0,
\* and with quantity > 0 the status is PAID if some successful payment was
\* applied since add_listing last wrote the record and PENDING if none was.
C3_Status ==
    \A key \in Keys : Created(key) =>
        /\ listings[key].status = COMPLETED <=> listings[key].quantity = 0
        /\ listings[key].quantity > 0 =>
            listings[key].status = IF key \in paid_since THEN PAID ELSE PENDING

\* A listing written again by add_listing after a payment on it.
C3_Witness ==
    \E key \in Keys :
        /\ Created(key)
        /\ key \in paid_ever \ paid_since
        /\ listings[key].status = PENDING
        /\ listings[key].quantity > 0

\* C4 as stated: if the second transfer of a payment fails (the token does
\* not answer true) after the first succeeded, the call returns
\* TransferFailed, the listings and the indexes are unchanged and no transfer
\* of the call is retained.  Stated for a created listing, a positive
\* quantity and a positive fee.
C4_SecondTransferFails ==
    [][(/\ Executes("pay_for_listing")
        /\ Created(<<call.id, call.seller>>)
        /\ call.quantity > 0
        /\ Len(ret'.calls) = 2
        /\ ret'.calls[2].amount > 0
        /\ ret'.calls[1].result = "OkTrue"
        /\ ret'.calls[2].result # "OkTrue") =>
        /\ ret'.err = "TransferFailed"
        /\ ListingsAndIndexesUnchanged
        /\ ret'.moved = <<>>]_vars

\* What holds of C4: if the second transfer comes back Err after the first
\* succeeded, the call returns TransferFailed, the store is unchanged and no
\* transfer of the call is retained.
C4_ErrRollsBack ==
    [][(/\ Executes("pay_for_listing")
        /\ Len(ret'.calls) = 2
        /\ ret'.calls[1].result = "OkTrue"
        /\ ret'.calls[2].result = "Err") =>
        /\ ret'.err = "TransferFailed"
        /\ UNCHANGED store
        /\ ret'.moved = <<>>]_vars

\* C5 as stated: in every successful pay_for_listing on a listing of rate r
\* for quantity q, the seller is sent r*q - floor(r / 1000) and the contract
\* floor(r / 1000), both from the caller.
C5_FeeSplit ==
    [][(Executes("pay_for_listing") /\ ret'.err = "Ok") =>
        LET r == listings[call.id, call.seller].rate
            fee == r \div 1000
        IN  /\ Len(ret'.calls) = 2
            /\ ret'.calls[1].from = call.caller
            /\ ret'.calls[1].to = call.seller
            /\ ret'.calls[1].amount = r * call.quantity - fee
            /\ ret'.calls[2].from = call.caller
            /\ ret'.calls[2].to = Self
            /\ ret'.calls[2].amount = fee]_vars

\* C6 as stated: a payment of amount >= rate * quantity is not refused for its
\* amount, and in every successful payment the two transfers add up to
\* rate * quantity whatever the amount, the listing being updated as for
\* amount = rate * quantity.
C6_Overpayment ==
    [][Executes("pay_for_listing") =>
        LET key == <<call.id, call.seller>>
            price == listings[key].rate * call.quantity
        IN  /\ call.amount >= price => ret'.err # "InvalidAmount"
            /\ ret'.err = "Ok" =>
                /\ call.amount >= price
                /\ ret'.calls[1].amount + ret'.calls[2].amount = price
                /\ listings'[key].quantity = listings[key].quantity - call.quantity
                /\ listings'[key].buyer = call.caller]_vars

\* C7: get_listing fails with ListingNotFound iff the seller field of the
\* record at (id, seller) is zero, returns the record otherwise, and changes
\* no listing, no index and no configuration.
C7_GetListing ==
    [][Executes("get_listing") =>
        LET l == listings[call.id, call.seller]
        IN  /\ ret'.err \in {"Ok", "ListingNotFound"}
            /\ ret'.err = "ListingNotFound" <=> l.seller = Zero
            /\ ret'.err = "Ok" => ret'.value = <<l>>
            /\ UNCHANGED store]_vars

\* get_listing has returned a listing that has no quantity left.
C7_Witness ==
    /\ ret.op = "get_listing"
    /\ ret.err = "Ok"
    /\ Len(ret.value) = 1
    /\ ret.value[1].status = COMPLETED

\* C8: no id occurs twice in listing_keys or in a seller's sequence, and the
\* id of every created listing occurs exactly once in listing_keys and in
\* its seller's sequence.
C8_IndexesDeduplicated ==
    /\ \A id \in Ids : Count(listing_keys, id) <= 1
    /\ \A a \in Address, id \in Ids : Count(address_to_listing[a], id) <= 1
    /\ \A key \in Keys : Created(key) =>
        /\ Count(listing_keys, key[1]) = 1
        /\ Count(address_to_listing[key[2]], key[1]) = 1

\* Two sellers have created a listing of the same id.
C8_Witness ==
    \E id \in Ids, a, b \in Accounts :
        /\ a # b
        /\ Created(<<id, a>>)
        /\ Created(<<id, b>>)
        /\ listing_keys = <<id>>

\* C9: a pay_for_listing on a COMPLETED listing fails with InvalidListing,
\* issues no transfer and changes no listing and no index.
C9_CompletedRefusesPayment ==
    [][(Executes("pay_for_listing")
        /\ listings[call.id, call.seller].status = COMPLETED) =>
        /\ ret'.err = "InvalidListing"
        /\ ret'.calls = <<>>
        /\ ListingsAndIndexesUnchanged]_vars

\* A payment was refused on a created listing that is COMPLETED.
C9_Witness ==
    /\ ret.op = "pay_for_listing"
    /\ ret.err = "InvalidListing"
    /\ \E key \in paid_since : listings[key].status = COMPLETED

\* C10 as stated: no call increases the quantity of a created listing or
\* makes it negative.
C10_QuantityNeverIncreases ==
    [][\A key \in Keys : Created(key) =>
        /\ listings'[key].quantity <= listings[key].quantity
        /\ listings'[key].quantity >= 0]_vars

\* C10 amended: the quantity of a created listing changes only by a successful
\* pay_for_listing on it, which lowers it by the requested quantity, itself at
\* most the quantity before, or by a successful add_listing of its seller
\* with its id, which replaces it by the positive quantity given.
C10_QuantityMonotone ==
    [][\A key \in Keys : Created(key) =>
        \/ listings'[key].quantity = listings[key].quantity
        \/ /\ Executes("pay_for_listing")
           /\ key = <<call.id, call.seller>>
           /\ ret'.err = "Ok"
           /\ call.quantity <= listings[key].quantity
           /\ listings'[key].quantity = listings[key].quantity - call.quantity
        \/ /\ Executes("add_listing")
           /\ key = <<call.id, call.caller>>
           /\ ret'.err = "Ok"
           /\ listings'[key].quantity = call.quantity
           /\ call.quantity > 0]_vars

\* A created listing was paid down to nothing.
C10_Witness ==
    /\ ret.op = "pay_for_listing"
    /\ ret.err = "Ok"
    /\ \E key \in paid_since :
        listings[key].quantity = 0 /\ listings[key].rate > 0

\* This step is a successful pay_for_listing on the listing at key.
PaysFor(key) ==
    /\ Executes("pay_for_listing")
    /\ key = <<call.id, call.seller>>
    /\ ret'.err = "Ok"
\* This step is a successful add_listing that writes the listing at key.
Adds(key) ==
    /\ Executes("add_listing")
    /\ key = <<call.id, call.caller>>
    /\ ret'.err = "Ok"

\* C11 as stated, for the created listings: the status of a listing changes
\* only through a successful payment on it, from PENDING or PAID to PAID
\* (something remains) or to COMPLETED (nothing remains), and a COMPLETED
\* listing stays COMPLETED.
C11_StatusOnlyByPayment ==
    [][\A key \in Keys : Created(key) =>
        /\ listings'[key].status # listings[key].status =>
            /\ PaysFor(key)
            /\ listings[key].status \in {PENDING, PAID}
            /\ listings'[key].status \in {PAID, COMPLETED}
        /\ PaysFor(key) =>
            (listings'[key].status = COMPLETED <=> listings'[key].quantity = 0)
        /\ listings[key].status = COMPLETED =>
            listings'[key].status = COMPLETED]_vars

\* C11 amended: the status of a listing changes only through a successful
\* payment on it, from PENDING or PAID to PAID (something remains) or to
\* COMPLETED (nothing remains), or through a successful add_listing of its
\* seller with its id, which sets it to PENDING; no other call moves a
\* listing out of COMPLETED.
C11_StatusTransitions ==
    [][\A key \in Keys :
        /\ listings'[key].status # listings[key].status =>
            \/ /\ PaysFor(key)
               /\ listings[key].status \in {PENDING, PAID}
               /\ listings'[key].status \in {PAID, COMPLETED}
            \/ /\ Adds(key)
               /\ listings'[key].status = PENDING
        /\ PaysFor(key) =>
            (listings'[key].status = COMPLETED <=> listings'[key].quantity = 0)
        /\ (listings[key].status = COMPLETED /\ ~Adds(key)) =>
            listings'[key].status = COMPLETED]_vars

\* A payment has left a created listing PAID, the payer recorded as buyer.
C11_Witness ==
    /\ ret.op = "pay_for_listing"
    /\ ret.err = "Ok"
    /\ \E key \in paid_since :
        listings[key].status = PAID /\ listings[key].buyer = ret.calls[1].from

\* C12: no listing record, created or not, has status CANCELLED.
C12_NeverCancelled == \A key \in Keys : listings[key].status # CANCELLED

\* The three other statuses are all present: a listing paid in part, a
\* record paid down to nothing and a record never paid.
C12_Witness ==
    \E k1, k2, k3 \in Keys :
        /\ listings[k1].status = PENDING
        /\ listings[k2].status = PAID
        /\ listings[k3].status = COMPLETED

\* C13 as stated: no call changes the seller or the rate of a created
\* listing.
C13_SellerAndRateImmutable ==
    [][\A key \in Keys : Created(key) =>
        /\ listings'[key].seller = listings[key].seller
        /\ listings'[key].rate = listings[key].rate]_vars

\* C13 amended: no call changes the seller of a created listing, and its rate
\* changes only through a successful add_listing of its seller with its id,
\* which replaces it by the positive rate given.
C13_SellerImmutableRateByAdd ==
    [][\A key \in Keys : Created(key) =>
        /\ listings'[key].seller = listings[key].seller
        /\ listings[key].seller = key[2]
        /\ \/ listings'[key].rate = listings[key].rate
           \/ /\ Adds(key)
              /\ listings'[key].rate = call.rate
              /\ call.rate > 0]_vars

\* A created listing of rate 5000 has been paid and keeps its seller and rate.
C13_Witness ==
    /\ ret.op = "pay_for_listing"
    /\ ret.err = "Ok"
    /\ \E key \in paid_since :
        listings[key].seller = key[2] /\ listings[key].rate = 5000

\* C14: listings are keyed by (id, seller).  For two different sellers S1 and
\* S2 and any id, an add_listing of that id by S1 and a pay_for_listing of
\* (id, S1) by any caller leave the record at (id, S2) and the per-seller
\* index of S2 unchanged.
C14_KeyedByIdAndSeller ==
    [][\A id \in Ids, S1 \in Accounts, S2 \in Accounts :
        (/\ S1 # S2
         /\ \/ Executes("add_listing") /\ call.id = id /\ call.caller = S1
            \/ Executes("pay_for_listing") /\ call.id = id /\ call.seller = S1)
        => /\ listings'[id, S2] = listings[id, S2]
           /\ address_to_listing'[S2] = address_to_listing[S2]]_vars

\* Two sellers have created a listing of the same id and the listing of one
\* of them has just been paid: the two records differ, the other one is as
\* its seller created it.
C14_Witness ==
    /\ ret.op = "pay_for_listing"
    /\ ret.err = "Ok"
    /\ \E id \in Ids, S1 \in Accounts, S2 \in Accounts :
        /\ S1 # S2
        /\ <<id, S1>> \in paid_since
        /\ listings[id, S1].seller = S1
        /\ listings[id, S1].status \in {PAID, COMPLETED}
        /\ listings[id, S2].seller = S2
        /\ listings[id, S2].status = PENDING
        /\ listings[id, S2].buyer = Zero
        /\ Count(address_to_listing[S1], id) = 1
        /\ Count(address_to_listing[S2], id) = 1

\* C15: get_all_listings_for_address(seller) fails with ListingNotFound
\* exactly when no id of the seller's index leads to a record whose seller
\* field is not zero; otherwise it returns the current records of exactly
\* those ids, one per id, in the order of the index, and it changes no state.
\* The index order is the order of first insertion: an index changes only by
\* the append of an id it does not hold.
C15_GetAllListings ==
    [][/\ Executes("get_all_listings_for_address") =>
            LET keys == address_to_listing[call.seller]
                kept == {i \in 1..Len(keys) :
                            listings[keys[i], call.seller].seller # Zero}
                rank(i) == Cardinality({j \in kept : j <= i})
            IN  /\ ret'.err = "ListingNotFound" <=> kept = {}
                /\ ret'.err \in {"Ok", "ListingNotFound"}
                /\ ret'.err = "Ok" =>
                    /\ Len(ret'.value) = Cardinality(kept)
                    /\ \A i \in kept :
                        ret'.value[rank(i)] = listings[keys[i], call.seller]
                    /\ \A m, n \in 1..Len(ret'.value) :
                        ret'.value[m].id = ret'.value[n].id => m = n
                /\ call.seller \notin {a \in Address : address_to_listing[a] # <<>>}
                    => ret'.err = "ListingNotFound"
                /\ UNCHANGED store
       /\ \A a \in Address :
            \/ address_to_listing'[a] = address_to_listing[a]
            \/ \E id \in Ids :
                /\ Count(address_to_listing[a], id) = 0
                /\ address_to_listing'[a] = Append(address_to_listing[a], id)]_vars

\* The query has returned two listings of a seller who added id 2 before
\* id 1: the listing of id 2 comes first.
C15_Witness ==
    /\ ret.op = "get_all_listings_for_address"
    /\ ret.err = "Ok"
    /\ Len(ret.value) = 2
    /\ ret.value[1].id = 2
    /\ ret.value[2].id = 1
    /\ ret.value[1].seller = ret.value[2].seller
    /\ address_to_listing[ret.value[1].seller] = <<2, 1>>

\* C16 as stated: pay_for_listing reports the first failing check, in the
\* order InvalidListing (status neither PENDING nor PAID), InvalidQuantity
\* (requested quantity above the remaining one), InvalidAmount (amount below
\* rate * requested quantity), TransferFailed (a transfer fails: the token
\* does not answer true); the three validation errors come without any
\* transfer, and every error leaves the listings and the indexes unchanged.
\* Stated for a created listing and a positive quantity.
C16_OrderedValidation ==
    [][(/\ Executes("pay_for_listing")
        /\ Created(<<call.id, call.seller>>)
        /\ call.quantity > 0) =>
        LET listing == listings[call.id, call.seller]
            failed == \E i \in 1..Len(ret'.calls) : ret'.calls[i].result # "OkTrue"
            expected ==
                IF listing.status \notin {PENDING, PAID} THEN "InvalidListing"
                ELSE IF call.quantity > listing.quantity THEN "InvalidQuantity"
                ELSE IF call.amount < listing.rate * call.quantity
                     THEN "InvalidAmount"
                ELSE IF failed THEN "TransferFailed"
                ELSE "Ok"
        IN  /\ ret'.err = expected
            /\ ret'.err \in {"InvalidListing", "InvalidQuantity", "InvalidAmount"}
                => ret'.calls = <<>>
            /\ ret'.err # "Ok" => ListingsAndIndexesUnchanged]_vars

\* What holds of C16: the same order with the price computed in the word,
\* rate * quantity modulo 2^WordBits, and a transfer counted as failed only
\* when it comes back Err.
C16_OrderWithWrappedPrice ==
    [][Executes("pay_for_listing") =>
        LET listing == listings[call.id, call.seller]
            failed == \E i \in 1..Len(ret'.calls) : ret'.calls[i].result = "Err"
            expected ==
                IF listing.status \notin {PENDING, PAID} THEN "InvalidListing"
                ELSE IF call.quantity > listing.quantity THEN "InvalidQuantity"
                ELSE IF call.amount < (listing.rate * call.quantity) % Modulus
                     THEN "InvalidAmount"
                ELSE IF failed THEN "TransferFailed"
                ELSE "Ok"
        IN  /\ ret'.err = expected
            /\ ret'.err \in {"InvalidListing", "InvalidQuantity", "InvalidAmount"}
                => ret'.calls = <<>>
            /\ ret'.err # "Ok" => UNCHANGED store]_vars

\* C17 as stated: a pay_for_listing on a key (id, seller) that no add_listing
\* has written returns an error and leaves the default record unchanged,
\* whatever the caller, the quantity and the amount.
C17_NoPaymentOnMissingListing ==
    [][\A key \in Keys :
        (/\ Executes("pay_for_listing")
         /\ key = <<call.id, call.seller>>
         /\ listings[key] = DefaultListing) =>
        /\ ret'.err # "Ok"
        /\ listings'[key] = DefaultListing]_vars

\* C18 as stated: in every pay_for_listing that passes the three validations
\* and reaches the transfers, the fee floor(rate / 1000) is at most the price
\* rate * requested quantity, and the seller amount asked of the token is
\* price - fee, not a wrapped value.  Stated for a created listing.
C18_FeeAtMostPrice ==
    [][(/\ Executes("pay_for_listing")
        /\ Created(<<call.id, call.seller>>)
        /\ Len(ret'.calls) >= 1) =>
        LET listing == listings[call.id, call.seller]
            price == Price(listing, call.quantity)
            fee == listing.rate \div 1000
        IN  /\ fee <= price
            /\ ret'.calls[1].amount = price - fee]_vars

\* C19 as stated: whenever a pay_for_listing passes the amount check (it
\* returns none of the three validation errors), the amount is at least the
\* product rate * requested quantity of the integers.  Stated for a created
\* listing.
C19_PriceCheckExact ==
    [][(/\ Executes("pay_for_listing")
        /\ Created(<<call.id, call.seller>>)
        /\ ret'.err \notin {"InvalidListing", "InvalidQuantity", "InvalidAmount"})
        => call.amount >= listings[call.id, call.seller].rate * call.quantity]_vars

\* The ids that occur in a sequence of ids.
IdsOf(seq) == {seq[i] : i \in 1..Len(seq)}

\* C20: the indexes and the registry agree.  An id is in the per-seller
\* sequence of S iff the record at (id, S) has seller field S; every such
\* record has rate > 0; the global sequence holds exactly the ids that occur
\* in some per-seller sequence.
C20_IndexesAgree ==
    /\ \A S \in Address, id \in Ids :
        /\ id \in IdsOf(address_to_listing[S]) <=>
            (S # Zero /\ listings[id, S].seller = S)
        /\ listings[id, S].seller \in {Zero, S}
        /\ listings[id, S].seller = S /\ S # Zero => listings[id, S].rate > 0
    /\ IdsOf(listing_keys) = UNION {IdsOf(address_to_listing[S]) : S \in Address}

\* Two sellers hold listings, one of them of both ids and the other of an id
\* the first holds too: three per-seller entries, two global ones.
C20_Witness ==
    \E S1 \in Accounts, S2 \in Accounts :
        /\ S1 # S2
        /\ IdsOf(address_to_listing[S1]) = Ids
        /\ Len(address_to_listing[S2]) = 1
        /\ Len(listing_keys) = 2
        /\ \A id \in Ids : listings[id, S1].seller = S1
        /\ listings[address_to_listing[S2][1], S2].seller = S2

====
